---- MODULE Spec2Model ----
(***************************************************************************)
(* Token and cost analysis of parallel English/Icelandic sentence pairs.   *)
(*                                                                         *)
(* The repository has three entry points, each its own process:            *)
(*   "token_counter" : src/data/token_counter.py run as a script, that is  *)
(*                     process_csv(input_csv, output_csv)                  *)
(*   "icetoke"       : src/icetoke.py, the dashboard; every rerun of the   *)
(*                     page executes main() once                           *)
(*   "library"       : a caller that applies count_tokens and              *)
(*                     calculate_cost of the modules to single arguments   *)
(* The variable `program` says which of them a behaviour is a run of.      *)
(*                                                                         *)
(* Conventions                                                             *)
(*   - a text is a sequence of characters; the third character of the      *)
(*     alphabet stands for the substring "<|endoftext|>", on which         *)
(*     tiktoken's encode raises ValueError (a disallowed special token);   *)
(*   - a cell is a record [isna, text]; NaN is the missing cell;           *)
(*   - prices are in hundredths of a dollar per million tokens (2.50 is    *)
(*     250); a cost is the exact rational [num, den] in lowest terms, in   *)
(*     hundredths of a dollar.                                             *)
(***************************************************************************)
EXTENDS Integers, Sequences, FiniteSets, TLC

\* ---------------------------------------------------------------- bounds
MaxLen == 2
MaxRows == 2
MaxTokens == 4

\* ------------------------------------------------------------- rationals
RECURSIVE Gcd(_, _)
Gcd(a, b) == IF b = 0 THEN a ELSE Gcd(b, a % b)

Abs(x) == IF x < 0 THEN -x ELSE x

\* the value n/d (d > 0) in lowest terms
Rat(n, d) ==
    LET g == Gcd(Abs(n), d)
    IN  [num |-> n \div g, den |-> d \div g]

RatLeq(x, y) == x.num * y.den <= y.num * x.den

\* ------------------------------------------------------------------ text
Special == "<|endoftext|>"
Alphabet == {"a", "b", Special}

SeqsUpTo(S, n) == UNION {[1..k -> S] : k \in 0..n}

Texts == SeqsUpTo(Alphabet, MaxLen)

NaN == [isna |-> TRUE, text |-> <<>>]
Str(t) == [isna |-> FALSE, text |-> t]

\* pd.isna(text)
isna(cell) == cell.isna

\* -------------------------------------------------- the tokenizer adapter
\* tiktoken.encoding_for_model(model): the encoding of a known model,
\* KeyError for any other name
Models == {"gpt-4o", "gpt-4", "no-such-model"}

encoding_for_model(model) ==
    CASE model = "gpt-4o" -> "o200k_base"
      [] model = "gpt-4"  -> "cl100k_base"
      [] OTHER            -> "KeyError"

\* the multi-character tokens of an encoding's vocabulary; every single
\* character is a token of every encoding
Merges(encoding) ==
    CASE encoding = "o200k_base"  -> {<<"a", "b">>, <<"a", "a">>}
      [] encoding = "cl100k_base" -> {<<"a", "a">>}
      [] OTHER                    -> {}

\* encoding.encode(text) raises on a text holding a special token
EncodeRaises(text) == \E i \in 1..Len(text) : text[i] = Special

\* encoding.encode(text): the token sequence, left to right, longest match
RECURSIVE Encode(_, _)
Encode(text, encoding) ==
    IF text = <<>> THEN <<>>
    ELSE IF Len(text) >= 2 /\ SubSeq(text, 1, 2) \in Merges(encoding)
         THEN <<SubSeq(text, 1, 2)>> \o Encode(SubSeq(text, 3, Len(text)), encoding)
         ELSE <<SubSeq(text, 1, 1)>> \o Encode(Tail(text), encoding)

\* the outcome of one call of count_tokens: the value returned (when nothing
\* was raised) and the texts handed to encoding.encode, in order
Returned(n, enc) == [raised |-> FALSE, value |-> n, encoded |-> enc]
RaisedIn(enc)    == [raised |-> TRUE,  value |-> 0, encoded |-> enc]

EncodeLen(text, encoding) ==
    IF EncodeRaises(text) THEN RaisedIn(<<text>>)
    ELSE Returned(Len(Encode(text, encoding)), <<text>>)

\* count_tokens with the length taken one short
count_tokens_short(cell, encoding) ==
    IF isna(cell) THEN Returned(0, <<>>)
    ELSE IF EncodeRaises(cell.text) THEN RaisedIn(<<cell.text>>)
         ELSE Returned(Len(Encode(cell.text, encoding)) - 1, <<cell.text>>)

\* count_tokens with the adapter's error caught and counted as no tokens
count_tokens_swallow(cell, encoding) ==
    IF isna(cell) THEN Returned(0, <<>>)
    ELSE IF EncodeRaises(cell.text) THEN Returned(0, <<cell.text>>)
         ELSE Returned(Len(Encode(cell.text, encoding)), <<cell.text>>)

\* src/data/token_counter.py: only a missing value is short-circuited
count_tokens(cell, encoding) ==
    IF isna(cell) THEN Returned(0, <<>>)
    ELSE EncodeLen(cell.text, encoding)

\* src/icetoke.py, src/archive/token_calculator_app.py
count_tokens_icetoke(cell, encoding) ==
    IF isna(cell) \/ cell.text = <<>> THEN Returned(0, <<>>)
    ELSE EncodeLen(cell.text, encoding)

\* src/archive/dashboard.py: the module-level gpt-4o encoding, str(text)
count_tokens_dashboard(cell) ==
    IF isna(cell) \/ cell.text = <<>> THEN Returned(0, <<>>)
    ELSE EncodeLen(cell.text, encoding_for_model("gpt-4o"))

\* ---------------------------------------------------------------- costs
MILLION == 1000000

\* PRICING of src/data/token_counter.py, hundredths of a dollar per 1M tokens
PRICING ==
    [standard |-> [input |-> 250, output |-> 1000],
     batch    |-> [input |-> 125, output |-> 500]]

\* PRICING of src/icetoke.py
PRICING_icetoke == [input |-> 250]

\* calculate_cost with a price per thousand tokens
calculate_cost_per_thousand(tokens, price_per_million) ==
    Rat(tokens * price_per_million, 1000)

\* calculate_cost with the product written as a difference
calculate_cost_minus(tokens, price_per_million) ==
    Rat(tokens - price_per_million, MILLION)

calculate_cost(tokens, price_per_million) ==
    Rat(tokens * price_per_million, MILLION)

\* ------------------------------------------------ costs as Python floats
\* The costs above are exact. Python computes them in binary64: every
\* literal, product and quotient is rounded to 53 significant bits, to the
\* nearest value, ties to even. A positive float is its significand, 53 bits
\* with the most significant first, and an exponent: bits * 2^exp. The
\* arithmetic on significands is done on limbs of 10 bits.
Precision == 53
LimbBits == 10
Limb == 2 ^ LimbBits

FloatZero == [bits |-> <<>>, exp |-> 0]

\* the binary digits of a natural number, most significant first
RECURSIVE Binary(_)
Binary(n) == IF n = 0 THEN <<>> ELSE Append(Binary(n \div 2), n % 2)

\* an int converted to float; exact below 2^53
FromNat(n) == IF n = 0 THEN FloatZero ELSE [bits |-> Binary(n), exp |-> 0]

\* the limbs of a bit sequence, most significant first
ToLimbs(bits) ==
    LET n == Len(bits)
        k == (n + LimbBits - 1) \div LimbBits
        BitAt(q) == IF q < 1 THEN 0 ELSE bits[q]
        First(l) == n - (k - l + 1) * LimbBits
    IN  [l \in 1..k |->
            BitAt(First(l) + 1) * 512 + BitAt(First(l) + 2) * 256
          + BitAt(First(l) + 3) * 128 + BitAt(First(l) + 4) * 64
          + BitAt(First(l) + 5) * 32  + BitAt(First(l) + 6) * 16
          + BitAt(First(l) + 7) * 8   + BitAt(First(l) + 8) * 4
          + BitAt(First(l) + 9) * 2   + BitAt(First(l) + 10)]

\* the bits of a limb sequence, from its first 1
FromLimbs(limbs) ==
    LET all == [q \in 1..(LimbBits * Len(limbs)) |->
                   (limbs[(q - 1) \div LimbBits + 1]
                        \div (2 ^ (LimbBits - 1 - ((q - 1) % LimbBits)))) % 2]
        ones == {q \in DOMAIN all : all[q] = 1}
    IN  IF ones = {} THEN <<>>
        ELSE SubSeq(all, CHOOSE q \in ones : \A o \in ones : q <= o, Len(all))

\* bits + 1
Increment(bits) ==
    LET zeros == {q \in DOMAIN bits : bits[q] = 0}
    IN  IF zeros = {} THEN <<1>> \o [q \in DOMAIN bits |-> 0]
        ELSE LET last == CHOOSE q \in zeros : \A z \in zeros : z <= q
             IN  [q \in DOMAIN bits |->
                     IF q < last THEN bits[q] ELSE IF q = last THEN 1 ELSE 0]

\* bits * 2^exp, and something more below the last bit if sticky, rounded
\* to Precision bits
RoundToEven(bits, exp, sticky) ==
    LET n == Len(bits)
    IN  IF n <= Precision
        THEN [bits |-> bits \o [q \in 1..(Precision - n) |-> 0],
              exp  |-> exp - (Precision - n)]
        ELSE LET keep  == SubSeq(bits, 1, Precision)
                 guard == bits[Precision + 1]
                 rest  == sticky \/ \E q \in (Precision + 2)..n : bits[q] = 1
                 up    == guard = 1 /\ (rest \/ keep[Precision] = 1)
                 inc   == Increment(keep)
             IN  IF ~up THEN [bits |-> keep, exp |-> exp + (n - Precision)]
                 ELSE IF Len(inc) > Precision
                 THEN [bits |-> SubSeq(inc, 1, Precision), exp |-> exp + (n - Precision) + 1]
                 ELSE [bits |-> inc, exp |-> exp + (n - Precision)]

\* the limbs of limbs * t + carry, t below 2^20
RECURSIVE TimesNat(_, _, _)
TimesNat(limbs, t, carry) ==
    IF limbs = <<>> THEN <<carry \div Limb, carry % Limb>>
    ELSE LET v == limbs[Len(limbs)] * t + carry
         IN  Append(TimesNat(SubSeq(limbs, 1, Len(limbs) - 1), t, v \div Limb), v % Limb)

\* x * t, t an int
FloatTimesNat(x, t) ==
    IF t = 0 \/ x = FloatZero THEN FloatZero
    ELSE RoundToEven(FromLimbs(TimesNat(ToLimbs(x.bits), t, 0)), x.exp, FALSE)

\* long division of limbs by d, d below 2^20: the quotient and the remainder
RECURSIVE LongDivision(_, _, _)
LongDivision(limbs, r, d) ==
    IF limbs = <<>> THEN [limbs |-> <<>>, r |-> r]
    ELSE LET v    == r * Limb + Head(limbs)
             rest == LongDivision(Tail(limbs), v % d, d)
         IN  [limbs |-> <<v \div d>> \o rest.limbs, r |-> rest.r]

\* the zero limbs a dividend is extended by, enough for a quotient of more
\* than Precision bits
ExtraLimbs == 8

\* x / d, d a positive int
FloatOverNat(x, d) ==
    IF x = FloatZero THEN FloatZero
    ELSE LET q == LongDivision(ToLimbs(x.bits) \o [l \in 1..ExtraLimbs |-> 0], 0, d)
         IN  RoundToEven(FromLimbs(q.limbs), x.exp - ExtraLimbs * LimbBits, q.r # 0)

\* the float of a decimal literal n / d, d a power of ten
Decimal(n, d) == FloatOverNat(FromNat(n), d)

\* calculate_cost as Python evaluates it: (tokens * price) / 1_000_000
calculate_cost_binary64(tokens, price_per_million) ==
    FloatOverNat(FloatTimesNat(price_per_million, tokens), MILLION)

\* PRICE_PER_1M_TOKENS of src/icetoke.py: 2.50
PRICE_PER_1M_TOKENS == [input |-> Decimal(PRICING_icetoke["input"], 100)]

\* PRICE_PER_1K_TOKENS of src/archive/dashboard.py: 0.0025 / 1000 and
\* 0.01 / 1000, prices per token
PRICE_PER_1K_TOKENS ==
    [input  |-> FloatOverNat(Decimal(25, 10000), 1000),
     output |-> FloatOverNat(Decimal(1, 100), 1000)]

\* estimated_input_cost of one row in load_data of src/icetoke.py:
\* tokens * price_per_1m_tokens['input'] / 1_000_000
estimated_input_cost_icetoke(tokens) ==
    FloatOverNat(FloatTimesNat(PRICE_PER_1M_TOKENS.input, tokens), MILLION)

\* estimated_input_cost of one row in load_data of the archived dashboard:
\* tokens * price_per_1k_tokens['input']
estimated_input_cost_dashboard(tokens) ==
    FloatTimesNat(PRICE_PER_1K_TOKENS.input, tokens)


\* ----------------------------------------------------------- data frames
Range(f) == {f[i] : i \in DOMAIN f}

\* a table: the column names in order and the rows in order, each row a
\* function from the column names to the values of its cells
Frame(cols, rows) == [columns |-> cols, rows |-> rows]
NoFrame == Frame(<<>>, <<>>)

\* an assignment that leaves a column the frame already has as it is
SetColumn_keep(df, c, values) ==
    IF c \in Range(df.columns) THEN df
    ELSE Frame(Append(df.columns, c),
               [i \in DOMAIN df.rows |->
                   [k \in Range(df.columns) \cup {c} |->
                       IF k = c THEN values[i] ELSE df.rows[i][k]]])

\* an assignment that puts a new column before the others
SetColumn_front(df, c, values) ==
    Frame(IF c \in Range(df.columns) THEN df.columns ELSE <<c>> \o df.columns,
          [i \in DOMAIN df.rows |->
              [k \in Range(df.columns) \cup {c} |->
                  IF k = c THEN values[i] ELSE df.rows[i][k]]])

\* df[c] = values : an existing column is replaced in place, a new one is
\* appended after the others
SetColumn(df, c, values) ==
    Frame(IF c \in Range(df.columns) THEN df.columns ELSE Append(df.columns, c),
          [i \in DOMAIN df.rows |->
              [k \in Range(df.columns) \cup {c} |->
                  IF k = c THEN values[i] ELSE df.rows[i][k]]])

Column(df, c) == [i \in DOMAIN df.rows |-> df.rows[i][c]]

RECURSIVE SumSeq(_)
SumSeq(s) == IF s = <<>> THEN 0 ELSE Head(s) + SumSeq(Tail(s))

\* -------------------------------------------------------------- csv files
\* A file is a header and rows of fields; a field is the text between two
\* delimiters (quoting is left out: the reader undoes what the writer did).
Digits == <<"0", "1", "2", "3", "4", "5", "6", "7", "8", "9">>

\* the columns that hold integers; the others hold text
DerivedColumns == {"english_tokens", "icelandic_tokens", "token_difference"}

\* an integer as to_csv writes it
RECURSIVE FormatNat(_)
FormatNat(n) ==
    IF n < 10 THEN <<Digits[n + 1]>>
    ELSE Append(FormatNat(n \div 10), Digits[(n % 10) + 1])

\* a writer that loses the sign
FormatInt_unsigned(n) == FormatNat(Abs(n))

FormatInt(n) == IF n < 0 THEN <<"-">> \o FormatNat(-n) ELSE FormatNat(n)

\* a cell as to_csv writes it: a missing value as the empty field
FormatCell(c, v) ==
    IF c \in DerivedColumns THEN FormatInt(v)
    ELSE IF v.isna THEN <<>> ELSE v.text

\* a field as read_csv reads it: the empty field is a missing value, a
\* field of digits an integer, any other field text (pandas decides per
\* column; no column of these files mixes numbers and text)
IsIntField(f) ==
    /\ f # <<>>
    /\ LET body == IF f[1] = "-" THEN Tail(f) ELSE f
       IN  body # <<>> /\ \A k \in DOMAIN body : body[k] \in Range(Digits)

DigitValue(c) == CHOOSE d \in 0..9 : Digits[d + 1] = c

RECURSIVE ParseNat(_)
ParseNat(f) ==
    IF Len(f) = 1 THEN DigitValue(f[1])
    ELSE 10 * ParseNat(SubSeq(f, 1, Len(f) - 1)) + DigitValue(f[Len(f)])

ParseInt(f) == IF f[1] = "-" THEN -ParseNat(Tail(f)) ELSE ParseNat(f)

ParseField(f) ==
    IF f = <<>> THEN NaN
    ELSE IF IsIntField(f) THEN ParseInt(f) ELSE Str(f)

\* pd.read_csv(path) of a readable file
read_csv(file) ==
    Frame(file.columns,
          [i \in DOMAIN file.rows |->
              [c \in DOMAIN file.rows[i] |-> ParseField(file.rows[i][c])]])

\* ------------------------------------------------------------- the input
\* the input files process_csv is run on
Schemas ==
    { <<"english", "icelandic">>,
      <<"english", "icelandic", "english_tokens", "icelandic_tokens", "token_difference">>,
      <<"icelandic_tokens", "english", "icelandic">>,
      <<"english">>,
      <<"icelandic">> }

\* pd.read_csv turns an empty field into a missing value, so a cell of the
\* frame is NaN or a non-empty text
EnglishCells == {NaN, Str(<<"a", "b">>)}
IcelandicCells == {NaN, Str(<<"b", "a">>), Str(<<"b", Special>>)}

\* the values a file written by an earlier run, with another tokenizer, holds
Stale == [english_tokens |-> 12, icelandic_tokens |-> 7, token_difference |-> 5]

MakeRow(schema, e, i) ==
    [c \in Range(schema) |->
        FormatCell(c, CASE c = "english"   -> e
                        [] c = "icelandic" -> i
                        [] OTHER           -> Stale[c])]

RowsOf(schema) == {MakeRow(schema, e, i) : e \in EnglishCells, i \in IcelandicCells}

Unreadable == [readable |-> FALSE, columns |-> <<>>, rows |-> <<>>]

Sources ==
    {Unreadable} \cup
    UNION {{[readable |-> TRUE, columns |-> s, rows |-> r] :
                r \in SeqsUpTo(RowsOf(s), MaxRows)} : s \in Schemas}

\* the file at output_csv
NoFile == [exists |-> FALSE, columns |-> <<>>, rows |-> <<>>]
OldFile ==
    [exists |-> TRUE, columns |-> <<"previous">>,
     rows |-> << [c \in {"previous"} |-> <<"a">>] >>]

\* a writer that leaves out the rows with a missing text
to_csv_dropna(df) ==
    LET Whole(row) == \A c \in DOMAIN row \ DerivedColumns : ~row[c].isna
        kept == SelectSeq(df.rows, Whole)
    IN  [exists |-> TRUE, columns |-> df.columns,
         rows |-> [i \in DOMAIN kept |->
                      [c \in DOMAIN kept[i] |-> FormatCell(c, kept[i][c])]]]

\* df.to_csv(output_csv, index=False): the file is opened for writing, what
\* it held is gone
to_csv(df) ==
    [exists |-> TRUE, columns |-> df.columns,
     rows |-> [i \in DOMAIN df.rows |->
                  [c \in DOMAIN df.rows[i] |-> FormatCell(c, df.rows[i][c])]]]

\* an OSError while writing leaves the path untouched, or the file
\* truncated with nothing but its header
FailedWrites(before, df) ==
    {before, [exists |-> TRUE, columns |-> df.columns, rows |-> <<>>]}

\* ----------------------------------------------------------------- state
VARIABLES
    program,        \* the entry point this behaviour runs
    model,          \* process_csv's model argument
    source,         \* the file at input_csv
    writable,       \* whether output_csv can be written
    previous,       \* the file at output_csv before the run
    output,         \* the file at output_csv
    pc,             \* the statement of process_csv to execute next
    encoding,       \* the encoding process_csv loaded
    df,             \* the data frame
    idx,            \* inside Series.apply: the row to count next (0: outside)
    acc,            \* inside Series.apply: the counts of the rows done
    calls,          \* the texts handed to encoding.encode, per column and row
    analysis,       \* what analyze_token_differences returned
    report,         \* what print_analysis logged
    events,         \* the statements of process_csv completed, in order
    raised,         \* the exception process_csv raised to its caller
    reloaded,       \* the written file as load_data reads it back
    buckets,        \* the records of each length bucket
    call,           \* library: the last call made and what it gave
    data_file,      \* icetoke: the file data/sentance_pairs_tokenized.csv
    load_cache,     \* icetoke: what st.cache_data holds for load_data
    page,           \* icetoke: what the last rerun of main() rendered
    reads,          \* icetoke: how often load_data's body read the file
    seen_file       \* icetoke: the file as it was when main() last ran

vars == <<program, model, source, writable, previous, output, pc, encoding, df, idx,
          acc, calls, analysis, report, events, raised, reloaded, buckets, call, data_file,
          load_cache, page, reads, seen_file>>

csv_inputs == <<model, source, writable, previous>>
csv_vars == <<model, source, writable, previous, output, pc, encoding, df, idx, acc,
              calls, analysis, report, events, raised, reloaded, buckets>>
icetoke_vars == <<data_file, load_cache, page, reads, seen_file>>


\* ------------------------------------------------ analyze_token_differences
Max(S) == CHOOSE x \in S : \A y \in S : y <= x
Min(S) == CHOOSE x \in S : \A y \in S : x <= y

\* the label of the last occurrence of the maximum
idxmax_last(col) == Max({i \in DOMAIN col : col[i] = Max(Range(col))})

\* Series.idxmax / idxmin: the label of the first occurrence
idxmax(col) == Min({i \in DOMAIN col : col[i] = Max(Range(col))})
idxmin(col) == Min({i \in DOMAIN col : col[i] = Min(Range(col))})

\* the difference with its operands exchanged
DifferenceColumn_swapped(frame) ==
    [i \in DOMAIN frame.rows |->
        frame.rows[i]["english_tokens"] - frame.rows[i]["icelandic_tokens"]]

\* df['token_difference'] = df['icelandic_tokens'] - df['english_tokens']
DifferenceColumn(frame) ==
    [i \in DOMAIN frame.rows |->
        frame.rows[i]["icelandic_tokens"] - frame.rows[i]["english_tokens"]]

\* the difference taken in place of icelandic_tokens and then copied
AssignDifference_inplace(frame) ==
    SetColumn(SetColumn(frame, "icelandic_tokens", DifferenceColumn(frame)),
              "token_difference", DifferenceColumn(frame))

\* the assignment of line 35; the frame is the caller's, changed in place
AssignDifference(frame) ==
    SetColumn(frame, "token_difference", DifferenceColumn(frame))

\* the dispersion of the whole column (ddof=0): 0 for a single value
std_population(col) ==
    LET n == Len(col)
    IN  IF n < 1 THEN [nan |-> TRUE, squared |-> Rat(0, 1)]
        ELSE [nan |-> FALSE,
              squared |-> Rat(n * SumSeq([i \in DOMAIN col |-> col[i] * col[i]])
                                - SumSeq(col) * SumSeq(col), n * n)]

\* Series.std(): the sample standard deviation (ddof=1), given by its
\* square; NaN when there are fewer than 2 values
std(col) ==
    LET n == Len(col)
    IN  IF n < 2 THEN [nan |-> TRUE, squared |-> Rat(0, 1)]
        ELSE [nan |-> FALSE,
              squared |-> Rat(n * SumSeq([i \in DOMAIN col |-> col[i] * col[i]])
                                - SumSeq(col) * SumSeq(col), n * (n - 1))]

\* the row at a label, as example_pairs shows it
ExamplePair(frame, i) ==
    [english          |-> frame.rows[i]["english"],
     icelandic        |-> frame.rows[i]["icelandic"],
     english_tokens   |-> frame.rows[i]["english_tokens"],
     icelandic_tokens |-> frame.rows[i]["icelandic_tokens"],
     difference       |-> frame.rows[i]["token_difference"]]

\* the j-th smallest value of a column
NthSmallest(col, j) ==
    CHOOSE v \in Range(col) :
        /\ Cardinality({i \in DOMAIN col : col[i] < v}) < j
        /\ j <= Cardinality({i \in DOMAIN col : col[i] <= v})

\* a median that adds the two middle values and does not halve the sum
median_unhalved(col) ==
    LET n == Len(col)
    IN  IF n % 2 = 1 THEN Rat(NthSmallest(col, (n + 1) \div 2), 1)
        ELSE Rat(NthSmallest(col, n \div 2) + NthSmallest(col, (n \div 2) + 1), 1)

\* Series.median(): the middle value, or the mean of the two middle values
median(col) ==
    LET n == Len(col)
    IN  IF n % 2 = 1 THEN Rat(NthSmallest(col, (n + 1) \div 2), 1)
        ELSE Rat(NthSmallest(col, n \div 2) + NthSmallest(col, (n \div 2) + 1), 2)

\* calculate_cost(column.mean(), price): the cost of the mean count
CostOfMean(col, price_per_million) ==
    Rat(SumSeq(col) * price_per_million, Len(col) * MILLION)

\* costs['per_sentence']: the standard tier applied to the mean counts
PerSentenceCosts(english_tokens, icelandic_tokens) ==
    [english   |-> [input  |-> CostOfMean(english_tokens, PRICING["standard"]["input"]),
                    output |-> CostOfMean(english_tokens, PRICING["standard"]["output"])],
     icelandic |-> [input  |-> CostOfMean(icelandic_tokens, PRICING["standard"]["input"]),
                    output |-> CostOfMean(icelandic_tokens, PRICING["standard"]["output"])]]

\* costs that take the standard prices whatever the tier
TierCosts_standard(tier, total_english_tokens, total_icelandic_tokens) ==
    [english   |-> [input  |-> calculate_cost(total_english_tokens, PRICING["standard"]["input"]),
                    output |-> calculate_cost(total_english_tokens, PRICING["standard"]["output"])],
     icelandic |-> [input  |-> calculate_cost(total_icelandic_tokens, PRICING["standard"]["input"]),
                    output |-> calculate_cost(total_icelandic_tokens, PRICING["standard"]["output"])]]

\* the costs of a language's total under a tier of PRICING
TierCosts(tier, total_english_tokens, total_icelandic_tokens) ==
    [english   |-> [input  |-> calculate_cost(total_english_tokens, PRICING[tier]["input"]),
                    output |-> calculate_cost(total_english_tokens, PRICING[tier]["output"])],
     icelandic |-> [input  |-> calculate_cost(total_icelandic_tokens, PRICING[tier]["input"]),
                    output |-> calculate_cost(total_icelandic_tokens, PRICING[tier]["output"])]]

\* a count of the distinct values: each value once
Counter_unique(col) ==
    LET firsts == {i \in DOMAIN col : \A j \in 1..(i - 1) : col[j] # col[i]}
        At(p) == CHOOSE i \in firsts : Cardinality({j \in firsts : j < i}) = p - 1
    IN  [p \in 1..Cardinality(firsts) |-> <<col[At(p)], 1>>]

\* Counter(df['token_difference']): the values in order of first
\* occurrence, each with its count
RECURSIVE Counter(_)
Counter(col) ==
    IF col = <<>> THEN <<>>
    ELSE LET init == SubSeq(col, 1, Len(col) - 1)
             last == col[Len(col)]
             c    == Counter(init)
         IN  IF \E k \in DOMAIN c : c[k][1] = last
             THEN [k \in DOMAIN c |->
                      IF c[k][1] = last THEN <<last, c[k][2] + 1>> ELSE c[k]]
             ELSE Append(c, <<last, 1>>)

NoAnalysis ==
    [max_difference |-> 0, min_difference |-> 0,
     mean_difference |-> Rat(0, 1),
     median_difference |-> Rat(0, 1),
     std_difference |-> [nan |-> TRUE, squared |-> Rat(0, 1)],
     total_english_tokens |-> 0, total_icelandic_tokens |-> 0,
     standard |-> TierCosts("standard", 0, 0), batch |-> TierCosts("batch", 0, 0),
     per_sentence |-> TierCosts("standard", 0, 0),
     largest_difference |-> 0, smallest_difference |-> 0,
     example_pairs |-> <<>>, difference_distribution |-> <<>>]

\* an analysis that answers a frame without rows with an empty summary
analyze_token_differences_total(frame) ==
    LET d    == AssignDifference(frame)
        diff == Column(d, "token_difference")
        te   == SumSeq(Column(d, "english_tokens"))
        ti   == SumSeq(Column(d, "icelandic_tokens"))
    IN  IF Len(d.rows) = 0
        THEN [df |-> d, raised |-> "none", summary |-> NoAnalysis]
        ELSE [df |-> d, raised |-> "none",
              summary |->
                [max_difference  |-> Max(Range(diff)),
                 min_difference  |-> Min(Range(diff)),
                 mean_difference |-> Rat(SumSeq(diff), Len(diff)),
                 median_difference |-> median(diff),
                 std_difference  |-> std(diff),
                 total_english_tokens   |-> te,
                 total_icelandic_tokens |-> ti,
                 standard |-> TierCosts("standard", te, ti),
                 batch    |-> TierCosts("batch", te, ti),
                 per_sentence |-> PerSentenceCosts(Column(d, "english_tokens"),
                                                   Column(d, "icelandic_tokens")),
                 largest_difference  |-> idxmax(diff),
                 smallest_difference |-> idxmin(diff),
                 example_pairs |-> <<ExamplePair(d, idxmax(diff)),
                                     ExamplePair(d, idxmin(diff))>>,
                 difference_distribution |-> Counter(diff)]]

\* analyze_token_differences(df): the frame with its token_difference
\* column set, and the summary or the error raised. On a frame without rows
\* idxmax raises ValueError, after the column was set.
analyze_token_differences(frame) ==
    LET d    == AssignDifference(frame)
        diff == Column(d, "token_difference")
        te   == SumSeq(Column(d, "english_tokens"))
        ti   == SumSeq(Column(d, "icelandic_tokens"))
    IN  IF Len(d.rows) = 0
        THEN [df |-> d, raised |-> "ValueError", summary |-> NoAnalysis]
        ELSE [df |-> d, raised |-> "none",
              summary |->
                [max_difference  |-> Max(Range(diff)),
                 min_difference  |-> Min(Range(diff)),
                 mean_difference |-> Rat(SumSeq(diff), Len(diff)),
                 median_difference |-> median(diff),
                 std_difference  |-> std(diff),
                 total_english_tokens   |-> te,
                 total_icelandic_tokens |-> ti,
                 standard |-> TierCosts("standard", te, ti),
                 batch    |-> TierCosts("batch", te, ti),
                 per_sentence |-> PerSentenceCosts(Column(d, "english_tokens"),
                                                   Column(d, "icelandic_tokens")),
                 largest_difference  |-> idxmax(diff),
                 smallest_difference |-> idxmin(diff),
                 example_pairs |-> <<ExamplePair(d, idxmax(diff)),
                                     ExamplePair(d, idxmin(diff))>>,
                 difference_distribution |-> Counter(diff)]]

\* Counter.most_common(n): the n entries of greatest count, those of equal
\* count in the order they were first met; sorted(...) then orders them by
\* their value
MostCommonCount == 5

MostCommon(counter, n) ==
    {k \in DOMAIN counter :
        Cardinality({j \in DOMAIN counter :
                        \/ counter[j][2] > counter[k][2]
                        \/ counter[j][2] = counter[k][2] /\ j < k}) < n}

SortedMostCommon(counter, n) ==
    LET chosen == MostCommon(counter, n)
        Place(k) == 1 + Cardinality({j \in chosen : counter[j][1] < counter[k][1]})
    IN  [p \in 1..Cardinality(chosen) |->
            counter[CHOOSE k \in chosen : Place(k) = p]]

\* the lines of fixed text print_analysis logs before the figures
Header ==
    << <<"text", "=== GPT-4 TOKEN AND COST ANALYSIS ===">>,
       <<"text", "MODEL INFORMATION:">>,
       <<"text", "Using GPT-4 model for token counting">>,
       <<"text", "Standard Pricing: $2.50/1M input tokens, $10.00/1M output tokens">>,
       <<"text", "Batch API Pricing: $1.25/1M input tokens, $5.00/1M output tokens">> >>

\* a report that logs the spread in the place of the maximum
print_analysis_spread(a) ==
    Header \o
    << <<"mean_difference", a.mean_difference>>,
       <<"median_difference", a.median_difference>>,
       <<"std_difference", a.std_difference>>,
       <<"max_difference", a.max_difference - a.min_difference>>,
       <<"min_difference", a.min_difference>> >>

\* print_analysis: the lines logged, in order; a line is fixed text or the
\* key of a value and the value (the rounding of the format is left out)
NoReport == <<>>
print_analysis(a) ==
    Header \o
    << <<"mean_difference", a.mean_difference>>,
       <<"median_difference", a.median_difference>>,
       <<"std_difference", a.std_difference>>,
       <<"max_difference", a.max_difference>>,
       <<"min_difference", a.min_difference>>,
       <<"per_sentence_english_input", a.per_sentence.english.input>>,
       <<"per_sentence_english_output", a.per_sentence.english.output>>,
       <<"per_sentence_icelandic_input", a.per_sentence.icelandic.input>>,
       <<"per_sentence_icelandic_output", a.per_sentence.icelandic.output>>,
       <<"standard_english_input", a.standard.english.input>>,
       <<"batch_english_input", a.batch.english.input>>,
       <<"standard_icelandic_input", a.standard.icelandic.input>>,
       <<"batch_icelandic_input", a.batch.icelandic.input>>,
       <<"largest_english_tokens", a.example_pairs[1].english_tokens>>,
       <<"largest_english", a.example_pairs[1].english>>,
       <<"largest_icelandic_tokens", a.example_pairs[1].icelandic_tokens>>,
       <<"largest_icelandic", a.example_pairs[1].icelandic>>,
       <<"largest_difference", a.example_pairs[1].difference>> >>
    \o
    LET top == SortedMostCommon(a.difference_distribution, MostCommonCount)
    IN  [k \in DOMAIN top |-> <<"difference_distribution", top[k]>>]

\* ------------------------------------------------------------ process_csv
\* process_csv saving before it analyzes
ProcessCsvSteps_save_first ==
    <<"encoding", "read_csv", "english", "icelandic", "to_csv", "analyze", "print">>

\* process_csv saving before it reports
ProcessCsvSteps_report_last ==
    <<"encoding", "read_csv", "english", "icelandic", "analyze", "to_csv", "print">>

\* the statements of the try block, in program order
ProcessCsvSteps ==
    <<"encoding", "read_csv", "english", "icelandic", "analyze", "print", "to_csv">>

\* the statement after statement s; "done" after the last
NextStep(s) ==
    LET k == CHOOSE j \in DOMAIN ProcessCsvSteps : ProcessCsvSteps[j] = s
    IN  IF k = Len(ProcessCsvSteps) THEN "done" ELSE ProcessCsvSteps[k + 1]

TextColumns == {"english", "icelandic"}
TokensColumn(col) == IF col = "english" THEN "english_tokens" ELSE "icelandic_tokens"

\* df[col] raises KeyError when the frame has no such column
LookupRaises(frame, col) == col \notin Range(frame.columns)

NoCalls == [c \in TextColumns \X (1..MaxRows) |-> <<>>]

\* the handler without its raise: the error is logged and dropped
Fail_swallow(e) ==
    /\ pc' = "failed"
    /\ raised' = "none"

\* except Exception as e: logging.error(...); raise
Fail(e) ==
    /\ pc' = "failed"
    /\ raised' = e

\* a statement that completed: the next one is due
Completed ==
    /\ pc' = NextStep(pc)
    /\ events' = Append(events, pc)
    /\ raised' = raised

\* encoding = tiktoken.encoding_for_model(model)
GetEncoding ==
    /\ program = "token_counter"
    /\ pc = "encoding"
    /\ IF encoding_for_model(model) = "KeyError"
       THEN /\ Fail("KeyError")
            /\ UNCHANGED <<encoding, events>>
       ELSE /\ encoding' = encoding_for_model(model)
            /\ Completed
    /\ UNCHANGED <<program, csv_inputs, reloaded, buckets, output, df, idx, acc, calls, analysis,
                   report, call, icetoke_vars>>

\* df = pd.read_csv(input_csv)
ReadCsv ==
    /\ program = "token_counter"
    /\ pc = "read_csv"
    /\ IF ~source.readable
       THEN /\ Fail("FileNotFoundError")
            /\ UNCHANGED <<df, events>>
       ELSE /\ df' = read_csv(source)
            /\ Completed
    /\ UNCHANGED <<program, csv_inputs, reloaded, buckets, output, encoding, idx, acc, calls,
                   analysis, report, call, icetoke_vars>>

\* df[col].apply(...) begins: the column is looked up
ApplyBegin ==
    /\ program = "token_counter"
    /\ pc \in TextColumns
    /\ idx = 0
    /\ IF LookupRaises(df, pc)
       THEN /\ Fail("KeyError")
            /\ UNCHANGED <<idx, acc>>
       ELSE /\ idx' = 1
            /\ acc' = <<>>
            /\ UNCHANGED <<pc, raised>>
    /\ UNCHANGED <<program, csv_inputs, reloaded, buckets, output, encoding, df, calls, analysis,
                   report, events, call, icetoke_vars>>

\* the lambda on the next row: count_tokens(x, encoding)
ApplyCell ==
    /\ program = "token_counter"
    /\ pc \in TextColumns
    /\ idx \in 1..Len(df.rows)
    /\ LET out == count_tokens(df.rows[idx][pc], encoding)
       IN  /\ calls' = [calls EXCEPT ![<<pc, idx>>] = @ \o out.encoded]
           /\ IF out.raised
              THEN /\ Fail("ValueError")
                   /\ UNCHANGED <<idx, acc>>
              ELSE /\ idx' = idx + 1
                   /\ acc' = Append(acc, out.value)
                   /\ UNCHANGED <<pc, raised>>
    /\ UNCHANGED <<program, csv_inputs, reloaded, buckets, output, encoding, df, analysis, report,
                   events, call, icetoke_vars>>

\* apply returned: df['english_tokens'] = ... / df['icelandic_tokens'] = ...
ApplyEnd ==
    /\ program = "token_counter"
    /\ pc \in TextColumns
    /\ idx = Len(df.rows) + 1
    /\ df' = SetColumn(df, TokensColumn(pc), acc)
    /\ idx' = 0
    /\ acc' = <<>>
    /\ Completed
    /\ UNCHANGED <<program, csv_inputs, reloaded, buckets, output, encoding, calls, analysis,
                   report, call, icetoke_vars>>

\* diff_stats, ... = analyze_token_differences(df)
Analyze ==
    /\ program = "token_counter"
    /\ pc = "analyze"
    /\ LET r == analyze_token_differences(df)
       IN  /\ df' = r.df
           /\ IF r.raised # "none"
              THEN /\ Fail(r.raised)
                   /\ UNCHANGED <<analysis, events>>
              ELSE /\ analysis' = r.summary
                   /\ Completed
    /\ UNCHANGED <<program, csv_inputs, reloaded, buckets, output, encoding, idx, acc, calls,
                   report, call, icetoke_vars>>

\* print_analysis(diff_stats, example_pairs, difference_distribution, costs)
PrintAnalysis ==
    /\ program = "token_counter"
    /\ pc = "print"
    /\ report' = print_analysis(analysis)
    /\ Completed
    /\ UNCHANGED <<program, csv_inputs, reloaded, buckets, output, encoding, df, idx, acc, calls,
                   analysis, call, icetoke_vars>>

\* df.to_csv(output_csv, index=False); logging.info("Analysis saved ...")
ToCsv ==
    /\ program = "token_counter"
    /\ pc = "to_csv"
    /\ IF writable
       THEN /\ output' = to_csv(df)
            /\ Completed
       ELSE /\ output' \in FailedWrites(output, df)
            /\ Fail("OSError")
            /\ UNCHANGED events
    /\ UNCHANGED <<program, csv_inputs, reloaded, buckets, encoding, df, idx, acc, calls,
                   analysis, report, call, icetoke_vars>>


\* load_data's df = pd.read_csv('data/sentance_pairs_tokenized.csv'): the
\* file process_csv wrote is read back, nothing is tokenized again
Reload ==
    /\ program = "token_counter"
    /\ pc = "done"
    /\ reloaded = NoFrame
    /\ reloaded' = read_csv(output)
    /\ UNCHANGED <<program, csv_inputs, output, pc, encoding, df, idx, acc, calls,
                   analysis, report, events, raised, buckets, call, icetoke_vars>>

\* ------------------------------------------------------- length bucketing
\* The statistics engine's step 3, of which the sources hold only results
\* (the "Length-Based Analysis" figures of the archived dashboard): records
\* are bucketed into four quartiles by the character length of the English
\* text. Lengths are compared with the quartiles of the lengths, found by
\* linear interpolation between order statistics; all values times 4.
NumBuckets == 4
NoBuckets == [k \in 1..NumBuckets |-> {}]

\* the character length of a text; a missing text has none
TextLength(cell) == IF cell.isna THEN 0 ELSE Len(cell.text)

\* the j-th smallest of a sequence of numbers
OrderStat(s, j) ==
    CHOOSE v \in Range(s) :
        /\ Cardinality({i \in DOMAIN s : s[i] < v}) < j
        /\ j <= Cardinality({i \in DOMAIN s : s[i] <= v})

\* NumBuckets times the quantile k / NumBuckets
Edge(s, k) ==
    LET n    == Len(s)
        pos  == (n - 1) * k
        j    == pos \div NumBuckets
        f    == pos % NumBuckets
    IN  IF f = 0 THEN NumBuckets * OrderStat(s, j + 1)
        ELSE (NumBuckets - f) * OrderStat(s, j + 1) + f * OrderStat(s, j + 2)

\* a bucketing whose first interval is open at the lowest length
length_buckets_open(frame) ==
    LET len == [i \in DOMAIN frame.rows |-> TextLength(frame.rows[i]["english"])]
    IN  [k \in 1..NumBuckets |->
            {i \in DOMAIN len :
                /\ Edge(len, k - 1) < NumBuckets * len[i]
                /\ NumBuckets * len[i] <= Edge(len, k)}]

\* bucket k holds the records whose length lies in (edge k-1, edge k]; the
\* first bucket takes the lowest length as well
length_buckets(frame) ==
    LET len == [i \in DOMAIN frame.rows |-> TextLength(frame.rows[i]["english"])]
    IN  [k \in 1..NumBuckets |->
            {i \in DOMAIN len :
                /\ \/ Edge(len, k - 1) < NumBuckets * len[i]
                   \/ k = 1 /\ Edge(len, 0) = NumBuckets * len[i]
                /\ NumBuckets * len[i] <= Edge(len, k)}]

\* bucketing the records process_csv exported
BucketByLength ==
    /\ program = "token_counter"
    /\ pc = "done"
    /\ buckets = NoBuckets
    /\ buckets' = length_buckets(df)
    /\ UNCHANGED <<program, csv_inputs, output, pc, encoding, df, idx, acc, calls,
                   analysis, report, events, raised, reloaded, call, icetoke_vars>>

\* ------------------------------------------------------------ the library
LibraryModules == {"token_counter", "icetoke", "dashboard"}
Encodings == {"o200k_base", "cl100k_base"}
Cells == {NaN} \cup {Str(t) : t \in Texts}
TokenCounts == (0..MaxTokens) \cup {MILLION}
Prices == {0, 1, 125, 250, 500, 1000}

NoCall ==
    [fn |-> "none", module |-> "none", cell |-> NaN, encoding |-> "none",
     tokens |-> 0, price |-> 0, counted |-> Returned(0, <<>>), cost |-> Rat(0, 1),
     binary64 |-> FloatZero]

\* count_tokens of one of the modules, applied to one cell
CallCountTokens ==
    /\ program = "library"
    /\ \E m \in LibraryModules, cell \in Cells, e \in Encodings :
          /\ m = "dashboard" => e = encoding_for_model("gpt-4o")
          /\ call' = [NoCall EXCEPT
                         !.fn = "count_tokens", !.module = m, !.cell = cell,
                         !.encoding = e,
                         !.counted =
                            CASE m = "token_counter" -> count_tokens(cell, e)
                              [] m = "icetoke"       -> count_tokens_icetoke(cell, e)
                              [] OTHER               -> count_tokens_dashboard(cell)]
    /\ UNCHANGED <<program, csv_vars, icetoke_vars>>

\* calculate_cost applied to a token count and a price
CallCalculateCost ==
    /\ program = "library"
    /\ \E t \in TokenCounts, p \in Prices :
          call' = [NoCall EXCEPT
                      !.fn = "calculate_cost", !.tokens = t, !.price = p,
                      !.cost = calculate_cost(t, p),
                      !.binary64 = calculate_cost_binary64(t, Decimal(p, 100))]
    /\ UNCHANGED <<program, csv_vars, icetoke_vars>>

\* the modules whose load_data prices the rows on its own
DashboardModules == {"icetoke", "dashboard"}

\* the estimated_input_cost a load_data gives a row with this many tokens
CallEstimatedCost ==
    /\ program = "library"
    /\ \E m \in DashboardModules, t \in TokenCounts :
          call' = [NoCall EXCEPT
                      !.fn = "estimated_input_cost", !.module = m, !.tokens = t,
                      !.binary64 = IF m = "icetoke"
                                   THEN estimated_input_cost_icetoke(t)
                                   ELSE estimated_input_cost_dashboard(t)]
    /\ UNCHANGED <<program, csv_vars, icetoke_vars>>

\* -------------------------------------------------- the dashboard, icetoke
\* what the translator may answer
Translations == {<<>>, <<"a">>, <<"a", "b">>, <<Special>>}

\* what the user may have typed into the text area
IcelandicInputs == {<<>>, <<"a">>, <<"b", "a">>, <<Special>>}

NoResult ==
    [shown |-> "nothing", icelandic_tokens |-> 0, english_tokens |-> 0,
     token_difference |-> 0, icelandic_input_cost |-> Rat(0, 1),
     english_input_cost |-> Rat(0, 1), percentage |-> Rat(0, 1)]

ErrorShown == [NoResult EXCEPT !.shown = "error"]

\* a calculator that shows the Icelandic count next to the error
Calculator_partial(icelandic_text, translated, english_text) ==
    LET e     == encoding_for_model("gpt-4o")
        ice   == count_tokens_icetoke(Str(icelandic_text), e)
        eng   == count_tokens_icetoke(Str(english_text), e)
        token_difference == ice.value - eng.value
    IN  IF ice.raised \/ eng.raised
        THEN ErrorShown
        ELSE IF ~translated
        THEN [ErrorShown EXCEPT !.icelandic_tokens = ice.value,
                                !.icelandic_input_cost =
                                    calculate_cost(ice.value, PRICING_icetoke["input"])]
        ELSE [shown |-> "result",
              icelandic_tokens |-> ice.value,
              english_tokens   |-> eng.value,
              token_difference |-> token_difference,
              icelandic_input_cost |-> calculate_cost(ice.value, PRICING_icetoke["input"]),
              english_input_cost   |-> calculate_cost(eng.value, PRICING_icetoke["input"]),
              percentage |-> IF eng.value > 0
                             THEN Rat(token_difference * 100, eng.value)
                             ELSE Rat(0, 1)]

\* the body of `if analyze_button and icelandic_text:` : translate, count,
\* subtract, price, display; any exception ends in st.error
Calculator(icelandic_text, translated, english_text) ==
    LET e     == encoding_for_model("gpt-4o")
        ice   == count_tokens_icetoke(Str(icelandic_text), e)
        eng   == count_tokens_icetoke(Str(english_text), e)
        token_difference == ice.value - eng.value
    IN  IF ~translated \/ ice.raised \/ eng.raised
        THEN ErrorShown
        ELSE [shown |-> "result",
              icelandic_tokens |-> ice.value,
              english_tokens   |-> eng.value,
              token_difference |-> token_difference,
              icelandic_input_cost |-> calculate_cost(ice.value, PRICING_icetoke["input"]),
              english_input_cost   |-> calculate_cost(eng.value, PRICING_icetoke["input"]),
              percentage |-> IF eng.value > 0
                             THEN Rat(token_difference * 100, eng.value)
                             ELSE Rat(0, 1)]

\* a number as numpy and pandas give it: a value, nan or an infinity
Num(r) == [kind |-> "num", value |-> r]
NotANumber == [kind |-> "nan", value |-> Rat(0, 1)]
Infinity == [kind |-> "inf", value |-> Rat(0, 1)]
MinusInfinity == [kind |-> "-inf", value |-> Rat(0, 1)]

\* a / b of numpy numbers, b >= 0: a zero divisor raises nothing
Divide(a, b) ==
    IF b # 0 THEN Num(Rat(a, b))
    ELSE IF a = 0 THEN NotANumber
    ELSE IF a > 0 THEN Infinity ELSE MinusInfinity

\* Series.mean(), .max(), .min(): nan for a column without values
Mean(col) == IF col = <<>> THEN NotANumber ELSE Num(Rat(SumSeq(col), Len(col)))
MaxOf(col) == IF col = <<>> THEN NotANumber ELSE Num(Rat(Max(Range(col)), 1))
MinOf(col) == IF col = <<>> THEN NotANumber ELSE Num(Rat(Min(Range(col)), 1))

\* .str.split().str.len().sum(): a text of this model has no white space
\* and is one word, a missing text is skipped
Words(col) == Cardinality({i \in DOMAIN col : ~col[i].isna})

\* the files load_data may find: none, one that was not tokenized, and
\* files process_csv wrote for gpt-4o
TokenizedColumns ==
    <<"english", "icelandic", "english_tokens", "icelandic_tokens", "token_difference">>

DataRow(e, i) ==
    LET et == count_tokens(e, "o200k_base").value
        it == count_tokens(i, "o200k_base").value
    IN  [c \in Range(TokenizedColumns) |->
            FormatCell(c, CASE c = "english"          -> e
                            [] c = "icelandic"        -> i
                            [] c = "english_tokens"   -> et
                            [] c = "icelandic_tokens" -> it
                            [] OTHER                  -> it - et)]

TokenizedFile(rows) == [readable |-> TRUE, columns |-> TokenizedColumns, rows |-> rows]

DataFiles ==
    { Unreadable,
      [readable |-> TRUE, columns |-> <<"english", "icelandic">>, rows |-> <<>>],
      TokenizedFile(<<>>),
      TokenizedFile(<<DataRow(NaN, Str(<<"b", "a">>))>>),
      TokenizedFile(<<DataRow(Str(<<"a", "b">>), Str(<<"b", "a">>)),
                      DataRow(Str(<<"a", "b">>), NaN)>>) }

\* the try block of load_data raises: the file cannot be read, or a column
\* it indexes is not there
LoadRaises(file) ==
    \/ ~file.readable
    \/ ~(Range(TokenizedColumns) \subseteq Range(file.columns))

\* the stats dictionary of load_data
NoStats ==
    [total_eng_tokens |-> 0, total_ice_tokens |-> 0,
     total_eng_words |-> 0, total_ice_words |-> 0,
     avg_eng_tokens |-> NotANumber, avg_ice_tokens |-> NotANumber,
     max_difference |-> NotANumber, min_difference |-> NotANumber,
     avg_difference |-> NotANumber, sample_count |-> 0]

Stats(frame) ==
    [total_eng_tokens |-> SumSeq(Column(frame, "english_tokens")),
     total_ice_tokens |-> SumSeq(Column(frame, "icelandic_tokens")),
     total_eng_words  |-> Words(Column(frame, "english")),
     total_ice_words  |-> Words(Column(frame, "icelandic")),
     avg_eng_tokens   |-> Mean(Column(frame, "english_tokens")),
     avg_ice_tokens   |-> Mean(Column(frame, "icelandic_tokens")),
     max_difference   |-> MaxOf(Column(frame, "token_difference")),
     min_difference   |-> MinOf(Column(frame, "token_difference")),
     avg_difference   |-> Mean(Column(frame, "token_difference")),
     sample_count     |-> Len(frame.rows)]

\* df_processed: the English rows followed by the Icelandic rows
Processed(frame) ==
    [i \in DOMAIN frame.rows |->
        [language |-> "English", text |-> frame.rows[i]["english"],
         tokens |-> frame.rows[i]["english_tokens"],
         estimated_input_cost |->
             Rat(frame.rows[i]["english_tokens"] * PRICING_icetoke["input"], MILLION)]]
    \o
    [i \in DOMAIN frame.rows |->
        [language |-> "Icelandic", text |-> frame.rows[i]["icelandic"],
         tokens |-> frame.rows[i]["icelandic_tokens"],
         estimated_input_cost |->
             Rat(frame.rows[i]["icelandic_tokens"] * PRICING_icetoke["input"], MILLION)]]

\* what st.cache_data holds for load_data
NotCached == [kind |-> "miss", df |-> <<>>, stats |-> NoStats]
CachedNone == [kind |-> "None", df |-> <<>>, stats |-> NoStats]

\* a cache that never answers: the body of load_data runs in every rerun
ReadsFile_always == TRUE

\* st.cache_data runs the body of load_data, and with it pd.read_csv, when
\* it holds nothing for the argument; main always passes PRICE_PER_1M_TOKENS
ReadsFile == load_cache.kind = "miss"

\* the reads of the file are counted up to here
MaxReads == 2

\* a load_data whose except branch hands back an empty dataset
load_data_empty ==
    IF ~ReadsFile THEN load_cache
    ELSE IF LoadRaises(data_file)
         THEN [kind |-> "data", df |-> <<>>, stats |-> NoStats]
    ELSE [kind |-> "data", df |-> Processed(read_csv(data_file)),
          stats |-> Stats(read_csv(data_file))]

\* load_data(PRICE_PER_1M_TOKENS) under st.cache_data: the file is read on
\* a miss and what the function returned is kept, (None, None) included
load_data ==
    IF ~ReadsFile THEN load_cache
    ELSE IF LoadRaises(data_file) THEN CachedNone
    ELSE [kind |-> "data", df |-> Processed(read_csv(data_file)),
          stats |-> Stats(read_csv(data_file))]

\* the figures written into the text of the page
NoIntro == [sample_count |-> 0, increase |-> 0, icelandic_tokens |-> 0, english_tokens |-> 0]
Intro == [sample_count |-> 101, increase |-> 187, icelandic_tokens |-> 40, english_tokens |-> 14]

\* the figures of the archived dashboard's "Detailed Statistical Analysis
\* Report", in hundredths and thousandths as printed
NoDetailedReport ==
    [mean_difference |-> 0, ci_lower |-> 0, ci_upper |-> 0,
     std_difference |-> 0, variance |-> 0, length_ratios |-> <<>>,
     case_endings |-> 0, compound_words |-> 0]

DetailedReport ==
    [mean_difference |-> 2607, ci_lower |-> 2494, ci_upper |-> 2720,
     std_difference |-> 572, variance |-> 3269,
     length_ratios |-> <<2941, 2835, 2864, 2860>>,
     case_endings |-> 87, compound_words |-> 126]

NoPage == [stopped |-> FALSE, analyze_button |-> FALSE,
           calculator |-> NoResult, dashboard |-> FALSE,
           text |-> <<>>, english_text |-> <<>>,
           intro |-> NoIntro, about_samples |-> 0, stats |-> NoStats,
           cost_increase |-> NotANumber, increase |-> NotANumber,
           report |-> NoDetailedReport]

\* the dashboard tab: the stats of load_data and the ratios main derives
\* from them
Dashboard(stats) ==
    LET eng_input_cost == stats.total_eng_tokens * PRICING_icetoke["input"]
        ice_input_cost == stats.total_ice_tokens * PRICING_icetoke["input"]
    IN  [about_samples |-> 102,
         stats |-> stats,
         cost_increase |-> Divide((ice_input_cost - eng_input_cost) * 100, eng_input_cost),
         increase |-> Divide((stats.total_ice_tokens - stats.total_eng_tokens) * 100,
                             stats.total_eng_tokens)]

\* one rerun of main()
Rerun ==
    /\ program = "icetoke"
    /\ load_cache' = load_data
    /\ reads' = IF ReadsFile /\ reads < MaxReads THEN reads + 1 ELSE reads
    /\ seen_file' = data_file
    /\ \E analyze_button \in BOOLEAN, icelandic_text \in IcelandicInputs,
          translated \in BOOLEAN, english_text \in Translations :
          page' = IF load_data.kind = "None"
                  THEN [NoPage EXCEPT !.stopped = TRUE]
                  ELSE LET d == Dashboard(load_data.stats)
                       IN  [stopped    |-> FALSE,
                            analyze_button |-> analyze_button,
                            calculator |->
                                IF analyze_button /\ icelandic_text # <<>>
                                THEN Calculator(icelandic_text, translated, english_text)
                                ELSE NoResult,
                            dashboard  |-> TRUE,
                            text       |-> icelandic_text,
                            english_text |->
                                IF analyze_button /\ icelandic_text # <<>> /\ translated
                                THEN english_text ELSE <<>>,
                            intro         |-> Intro,
                            about_samples |-> d.about_samples,
                            stats         |-> d.stats,
                            cost_increase |-> d.cost_increase,
                            increase      |-> d.increase,
                            report        |-> DetailedReport]
    /\ UNCHANGED <<program, csv_vars, call, data_file>>

\* the data file is written again (process_csv is run on another source)
\* while the dashboard's process lives
DataFileChanges ==
    /\ program = "icetoke"
    /\ data_file' \in DataFiles \ {data_file}
    /\ UNCHANGED <<program, csv_vars, call, load_cache, page, reads, seen_file>>

\* ---------------------------------------------------------- specification
IdleCsv ==
    /\ model = "gpt-4o"
    /\ source = Unreadable
    /\ writable = FALSE
    /\ previous = NoFile
    /\ output = NoFile

InitToken_counter ==
    /\ program = "token_counter"
    /\ model \in Models
    /\ source \in Sources
    /\ writable \in BOOLEAN
    /\ previous \in {NoFile, OldFile}
    /\ output = previous
    /\ data_file = Unreadable

InitLibrary ==
    /\ program = "library"
    /\ IdleCsv
    /\ data_file = Unreadable

InitIcetoke ==
    /\ program = "icetoke"
    /\ IdleCsv
    /\ data_file \in DataFiles

Init ==
    /\ \/ InitToken_counter
       \/ InitLibrary
       \/ InitIcetoke
    /\ pc = "encoding"
    /\ encoding = "none"
    /\ df = NoFrame
    /\ idx = 0
    /\ acc = <<>>
    /\ calls = NoCalls
    /\ analysis = NoAnalysis
    /\ report = NoReport
    /\ events = <<>>
    /\ raised = "none"
    /\ reloaded = NoFrame
    /\ buckets = NoBuckets
    /\ call = NoCall
    /\ load_cache = NotCached
    /\ page = NoPage
    /\ reads = 0
    /\ seen_file = Unreadable

Next ==
    \/ GetEncoding
    \/ ReadCsv
    \/ ApplyBegin
    \/ ApplyCell
    \/ ApplyEnd
    \/ Analyze
    \/ PrintAnalysis
    \/ ToCsv
    \/ Reload
    \/ BucketByLength
    \/ CallCountTokens
    \/ CallCalculateCost
    \/ CallEstimatedCost
    \/ Rerun
    \/ DataFileChanges

Spec == Init /\ [][Next]_vars



\* ------------------------------------------------------------- properties
IsPrefix(s, t) == Len(s) <= Len(t) /\ s = SubSeq(t, 1, Len(s))

\* the file at output_csv is as it was before the run
NotWritten == output \in {NoFile, OldFile}

\* the count the active tokenizer gives a cell of the source
Recount(cell) ==
    IF cell.isna THEN 0 ELSE Len(Encode(cell.text, encoding_for_model(model)))

\* the source and the written file, as pd.read_csv gives them
SourceFrame == read_csv(source)
Exported == read_csv(output)

EquationHolds(rows) ==
    \A i \in DOMAIN rows :
        rows[i]["token_difference"] =
            rows[i]["icelandic_tokens"] - rows[i]["english_tokens"]

\* C1: token_difference = icelandic_tokens - english_tokens in every record
\* once analyze_token_differences has returned, in every row of the file
\* process_csv wrote, and in the difference the dashboard calculator shows.
C1_TokenDifference ==
    /\ (program = "token_counter" /\ "analyze" \in Range(events))
          => EquationHolds(df.rows)
    /\ (program = "token_counter" /\ "to_csv" \in Range(events))
          => EquationHolds(Exported.rows)
    /\ page.calculator.shown = "result"
          => page.calculator.token_difference =
                page.calculator.icelandic_tokens - page.calculator.english_tokens

C1_Witness ==
    /\ pc = "done"
    /\ \E i \in DOMAIN Exported.rows :
          /\ Exported.rows[i]["icelandic_tokens"] > Exported.rows[i]["english_tokens"]
          /\ Exported.rows[i]["token_difference"] > 0

\* C2: a call of count_tokens that returns gives 0 for a missing or empty
\* text, which never raises, and for a non-empty text the length of the
\* adapter's encode result, which is at least 1.
C2_CountTokens ==
    call.fn = "count_tokens" =>
        IF call.cell.isna \/ call.cell.text = <<>>
        THEN ~call.counted.raised /\ call.counted.value = 0
        ELSE ~call.counted.raised =>
                /\ call.counted.value >= 1
                /\ call.counted.value = Len(Encode(call.cell.text, call.encoding))

C2_Witness ==
    /\ call.fn = "count_tokens"
    /\ call.module = "token_counter"
    /\ ~call.counted.raised
    /\ call.counted.value >= 1
    /\ call.counted.value < Len(call.cell.text)

\* C3: count_tokens hands neither a missing cell nor an empty string to the
\* adapter's encode: it returns 0 with no text encoded, in every module.
C3_NoEncodeOnEmpty ==
    (call.fn = "count_tokens" /\ (call.cell.isna \/ call.cell.text = <<>>))
        => /\ call.counted.encoded = <<>>
           /\ call.counted.value = 0
           /\ ~call.counted.raised

\* C4: calculate_cost(tokens, price) is tokens * price / 1_000_000: it is 0
\* for 0 tokens at any price, and 2.50 for 1_000_000 tokens at 2.50.
C4_CostFormula ==
    call.fn = "calculate_cost" =>
        /\ call.cost.den > 0
        /\ MILLION % call.cost.den = 0
        /\ IF call.cost.num = 0
           THEN call.tokens * call.price = 0
           ELSE /\ (call.tokens * call.price) % call.cost.num = 0
                /\ (call.tokens * call.price) \div call.cost.num
                      = MILLION \div call.cost.den
        /\ call.tokens = 0 => call.cost.num = 0
        /\ (call.tokens = MILLION /\ call.price = 250)
              => call.cost = [num |-> 250, den |-> 1]

C4_Witness ==
    /\ call.fn = "calculate_cost"
    /\ call.tokens = MILLION
    /\ call.price = 250
    /\ call.cost = [num |-> 250, den |-> 1]

\* C5: for a fixed price calculate_cost does not decrease when the token
\* count grows, and it is never negative.
C5_CostMonotone ==
    call.fn = "calculate_cost" =>
        /\ call.cost.num >= 0
        /\ \A t \in TokenCounts :
              t <= call.tokens => RatLeq(calculate_cost(t, call.price), call.cost)

C5_Witness ==
    /\ call.fn = "calculate_cost"
    /\ call.tokens = MaxTokens
    /\ call.price = 125
    /\ ~RatLeq(call.cost, calculate_cost(1, call.price))

\* the source cannot be read, or lacks the english or the icelandic column
BadSource ==
    \/ ~source.readable
    \/ "english" \notin Range(source.columns)
    \/ "icelandic" \notin Range(source.columns)

\* C6: on a source that cannot be read or lacks a text column process_csv
\* never gets to analyze, report or save: the run can only end failed, with
\* an error raised to the caller and the output file not written.
C6_BadSourceFails ==
    (program = "token_counter" /\ BadSource) =>
        /\ pc \notin {"analyze", "print", "to_csv", "done"}
        /\ NotWritten
        /\ "to_csv" \notin Range(events)
        /\ pc = "failed" => raised # "none"
        /\ ~ENABLED Next => pc = "failed"

C6_Witness ==
    /\ program = "token_counter"
    /\ source.readable
    /\ "icelandic" \notin Range(source.columns)
    /\ Len(source.rows) > 0
    /\ "english_tokens" \in Range(df.columns)
    /\ pc = "failed"
    /\ raised = "KeyError"
    /\ NotWritten

\* the cells whose text made the adapter fail
FailedCells ==
    {k \in DOMAIN calls : \E j \in DOMAIN calls[k] : EncodeRaises(calls[k][j])}

\* cell k2 comes after cell k1 in the order process_csv counts them
Later(k1, k2) ==
    \/ k1[1] = "english" /\ k2[1] = "icelandic"
    \/ k1[1] = k2[1] /\ k1[2] < k2[2]

\* C7: when the adapter fails on a cell process_csv is aborted with the
\* adapter's error raised to the caller; no later cell is counted, neither
\* analysis nor report nor export happens, and no cell is handed to the
\* adapter more than once.
C7_TokenizerFailureAborts ==
    program = "token_counter" =>
        /\ \A k \in DOMAIN calls : Len(calls[k]) <= 1
        /\ \A k \in FailedCells :
              /\ pc = "failed"
              /\ raised = "ValueError"
              /\ \A k2 \in DOMAIN calls : Later(k, k2) => calls[k2] = <<>>
              /\ analysis = NoAnalysis
              /\ report = NoReport
              /\ NotWritten
              /\ Range(events) \cap {"analyze", "print", "to_csv"} = {}

C7_Witness ==
    /\ pc = "failed"
    /\ <<"icelandic", 2>> \in FailedCells
    /\ Len(calls[<<"icelandic", 1>>]) = 1
    /\ Len(calls[<<"english", 1>>]) = 1

\* C8: the steps of process_csv are completed in the order load (encoding,
\* read, tokenize english, tokenize icelandic), summarize, report, export,
\* each at most once; the file is written only after the summary and the
\* report exist, and the summary only after both token columns are set.
C8_StepOrder ==
    program = "token_counter" =>
        /\ IsPrefix(events, <<"encoding", "read_csv", "english", "icelandic",
                              "analyze", "print", "to_csv">>)
        /\ ~NotWritten => (analysis # NoAnalysis /\ report # NoReport)
        /\ report # NoReport => analysis # NoAnalysis
        /\ analysis # NoAnalysis =>
              /\ {"english_tokens", "icelandic_tokens"} \subseteq Range(df.columns)
              /\ idx = 0

C8_Witness ==
    /\ pc = "done"
    /\ events = <<"encoding", "read_csv", "english", "icelandic",
                  "analyze", "print", "to_csv">>
    /\ output = to_csv(df)

\* C9 as claimed: a run ends either done, with the report emitted and the
\* file written, or failed with neither.
C9_Atomic ==
    program = "token_counter" =>
        /\ pc = "done" => (report # NoReport /\ output = to_csv(df))
        /\ pc = "failed" => (report = NoReport /\ NotWritten)

\* C9, amended: a run that ends done has emitted the report and written the
\* file; a run that fails before the export step has emitted no report and
\* written no file; a run that fails in the export step has already emitted
\* the report.
C9_AtomicBeforeExport ==
    program = "token_counter" =>
        /\ pc = "done" => (report # NoReport /\ output = to_csv(df))
        /\ (pc = "failed" /\ raised # "OSError")
              => (report = NoReport /\ NotWritten)
        /\ (pc = "failed" /\ raised = "OSError") => report # NoReport

C9_Witness ==
    /\ pc = "failed"
    /\ raised = "OSError"
    /\ report # NoReport
    /\ NotWritten

\* C10: after process_csv the three derived columns hold what the active
\* tokenizer gives for the english and icelandic text of the row, whatever
\* the source held in columns of these names.
C10_Recomputed ==
    (program = "token_counter" /\ pc = "done") =>
        /\ Len(Exported.rows) = Len(SourceFrame.rows)
        /\ \A i \in DOMAIN Exported.rows :
              /\ Exported.rows[i]["english_tokens"] = Recount(SourceFrame.rows[i]["english"])
              /\ Exported.rows[i]["icelandic_tokens"] = Recount(SourceFrame.rows[i]["icelandic"])
              /\ Exported.rows[i]["token_difference"] =
                    Recount(SourceFrame.rows[i]["icelandic"])
                        - Recount(SourceFrame.rows[i]["english"])

C10_Witness ==
    /\ pc = "done"
    /\ "token_difference" \in Range(source.columns)
    /\ Len(source.rows) = MaxRows
    /\ \A i \in DOMAIN source.rows :
          /\ SourceFrame.rows[i]["english_tokens"] # Exported.rows[i]["english_tokens"]
          /\ SourceFrame.rows[i]["token_difference"] # Exported.rows[i]["token_difference"]

\* C11: the table process_csv writes replaces what the output path held: it
\* has the source's columns in the source's order, followed by those of
\* english_tokens, icelandic_tokens, token_difference that the source did
\* not have, in that order, and one row of those columns per row of the
\* frame; nothing of the previous file remains.
NewColumns == <<"english_tokens", "icelandic_tokens", "token_difference">>

Appended(cols) ==
    LET Absent(c) == c \notin Range(cols)
    IN  SelectSeq(NewColumns, Absent)

C11_OutputColumns ==
    (program = "token_counter" /\ pc = "done")
        => /\ output.exists
           /\ output.columns = source.columns \o Appended(source.columns)
           /\ Range(NewColumns) \subseteq Range(output.columns)
           /\ Len(output.rows) = Len(df.rows)
           /\ \A i \in DOMAIN output.rows :
                 DOMAIN output.rows[i] = Range(output.columns)

C11_Witness ==
    /\ program = "token_counter"
    /\ pc = "done"
    /\ previous = OldFile
    /\ source.columns = <<"english", "icelandic">>
    /\ output.columns = <<"english", "icelandic">> \o NewColumns
    /\ Len(output.rows) = MaxRows

\* C12: the written table has one row per row of the source, in the
\* source's order, and the english and icelandic fields of each row are the
\* fields of the source.
C12_RowsKept ==
    (program = "token_counter" /\ pc = "done")
        => /\ Len(output.rows) = Len(source.rows)
           /\ \A i \in DOMAIN output.rows : \A c \in TextColumns :
                 output.rows[i][c] = source.rows[i][c]

C12_Witness ==
    /\ program = "token_counter"
    /\ pc = "done"
    /\ Len(source.rows) = MaxRows
    /\ source.rows[1] # source.rows[MaxRows]
    /\ \E i \in DOMAIN source.rows : source.rows[i]["english"] = <<>>
    /\ \E i \in DOMAIN source.rows : source.rows[i]["icelandic"] # <<>>

\* C13: the file process_csv wrote, read back by pd.read_csv without
\* tokenizing again, holds in every row the english_tokens,
\* icelandic_tokens and token_difference that were exported.
C13_RoundTrip ==
    (program = "token_counter" /\ reloaded # NoFrame)
        => /\ Len(reloaded.rows) = Len(df.rows)
           /\ \A i \in DOMAIN reloaded.rows : \A c \in DerivedColumns :
                 reloaded.rows[i][c] = df.rows[i][c]

C13_Witness ==
    /\ program = "token_counter"
    /\ reloaded # NoFrame
    /\ Len(reloaded.rows) = MaxRows
    /\ \E i \in DOMAIN reloaded.rows : reloaded.rows[i]["token_difference"] < 0
    /\ \E i \in DOMAIN reloaded.rows : reloaded.rows[i]["token_difference"] > 0
    /\ \E i \in DOMAIN reloaded.rows : reloaded.rows[i]["english"] = NaN

\* C14: the largest_difference and smallest_difference examples are rows
\* whose token_difference is the maximum and the minimum of the column,
\* and no earlier row has that value: of tied records the first is taken.
C14_Examples ==
    (program = "token_counter" /\ "analyze" \in Range(events))
        => LET diff == Column(df, "token_difference")
               l == analysis.largest_difference
               s == analysis.smallest_difference
           IN  /\ l \in DOMAIN diff /\ s \in DOMAIN diff
               /\ \A j \in DOMAIN diff : diff[s] <= diff[j] /\ diff[j] <= diff[l]
               /\ \A j \in 1..(l - 1) : diff[j] < diff[l]
               /\ \A j \in 1..(s - 1) : diff[j] > diff[s]
               /\ analysis.example_pairs = <<ExamplePair(df, l), ExamplePair(df, s)>>

\* two records tie for the maximum and differ in their text
C14_Witness ==
    /\ program = "token_counter"
    /\ "analyze" \in Range(events)
    /\ Len(df.rows) = MaxRows
    /\ df.rows[1]["token_difference"] = df.rows[MaxRows]["token_difference"]
    /\ df.rows[1]["english"] # df.rows[MaxRows]["english"]
    /\ analysis.largest_difference = 1
    /\ analysis.example_pairs[1].english = df.rows[1]["english"]

C19_TokensFrozen ==
    [][ (program = "token_counter" /\ "icelandic" \in Range(events))
          => /\ Len(df'.rows) = Len(df.rows)
             /\ \A i \in DOMAIN df.rows :
                   \A c \in {"english", "icelandic", "english_tokens", "icelandic_tokens"} :
                       df'.rows[i][c] = df.rows[i][c]
             /\ "analyze" \in Range(events) => df' = df ]_vars

C19_Witness ==
    /\ program = "token_counter"
    /\ pc = "done"
    /\ Len(df.rows) = MaxRows
    /\ "token_difference" \in Range(df.columns)
    /\ report # NoReport
    /\ \E i \in DOMAIN df.rows :
          df.rows[i]["icelandic_tokens"] # df.rows[i]["token_difference"]

\* C17: length bucketing makes exactly 4 buckets, every record is in
\* exactly one of them: the buckets are pairwise disjoint and their union
\* is the whole record set.
C17_BucketsPartition ==
    (program = "token_counter" /\ buckets # NoBuckets)
        => /\ DOMAIN buckets = 1..4
           /\ \A k1, k2 \in DOMAIN buckets :
                 k1 # k2 => buckets[k1] \cap buckets[k2] = {}
           /\ UNION {buckets[k] : k \in DOMAIN buckets} = DOMAIN df.rows
           /\ \A i \in DOMAIN df.rows :
                 Cardinality({k \in DOMAIN buckets : i \in buckets[k]}) = 1

C17_Witness ==
    /\ program = "token_counter"
    /\ Len(df.rows) = MaxRows
    /\ buckets[1] # {}
    /\ buckets[4] # {}
    /\ UNION {buckets[k] : k \in DOMAIN buckets} = DOMAIN df.rows

\* C16: a ratio or percentage increase whose denominator is 0 is shown as
\* undefined: the calculator's percentage difference is not the number 0
\* when the English text has 0 tokens, and the dashboard's percentage
\* increases are neither a number nor an infinity when the English total
\* is 0.
C16_UndefinedRatio ==
    (program = "icetoke" /\ page.dashboard)
        => /\ (page.calculator.shown = "result" /\ page.calculator.english_tokens = 0)
                 => page.calculator.percentage # Rat(0, 1)
           /\ page.stats.total_eng_tokens = 0
                 => /\ page.increase.kind = "nan"
                    /\ page.cost_increase.kind = "nan"

\* C20: every statistic the page presents is derived from the record set
\* the data file holds now: the stats shown are the stats of that file, and
\* the sample counts, the mean difference and the other figures of the
\* text are those of the records.
C20_DerivedFromRecords ==
    (program = "icetoke" /\ page.dashboard)
        => /\ ~LoadRaises(data_file)
           /\ page.stats = Stats(read_csv(data_file))
           /\ page.intro.sample_count = page.stats.sample_count
           /\ page.about_samples = page.stats.sample_count
           /\ Num(Rat(page.report.mean_difference, 100)) = page.stats.avg_difference

\* a logged line shows a value the summary holds under the line's key
Present(a, key, v) ==
    CASE key = "text" -> <<key, v>> \in Range(Header)
      [] key = "mean_difference" -> v = a.mean_difference
      [] key = "median_difference" -> v = a.median_difference
      [] key = "std_difference" -> v = a.std_difference
      [] key = "max_difference" -> v = a.max_difference
      [] key = "min_difference" -> v = a.min_difference
      [] key = "per_sentence_english_input" -> v = a.per_sentence.english.input
      [] key = "per_sentence_english_output" -> v = a.per_sentence.english.output
      [] key = "per_sentence_icelandic_input" -> v = a.per_sentence.icelandic.input
      [] key = "per_sentence_icelandic_output" -> v = a.per_sentence.icelandic.output
      [] key = "standard_english_input" -> v = a.standard.english.input
      [] key = "batch_english_input" -> v = a.batch.english.input
      [] key = "standard_icelandic_input" -> v = a.standard.icelandic.input
      [] key = "batch_icelandic_input" -> v = a.batch.icelandic.input
      [] key = "largest_english_tokens" -> v = a.example_pairs[1].english_tokens
      [] key = "largest_english" -> v = a.example_pairs[1].english
      [] key = "largest_icelandic_tokens" -> v = a.example_pairs[1].icelandic_tokens
      [] key = "largest_icelandic" -> v = a.example_pairs[1].icelandic
      [] key = "largest_difference" -> v = a.example_pairs[1].difference
      [] key = "difference_distribution" ->
            \E j \in DOMAIN a.difference_distribution : a.difference_distribution[j] = v
      [] OTHER -> FALSE

Languages == {"english", "icelandic"}

C22_TierCosts ==
    (program = "token_counter" /\ "analyze" \in Range(events))
        => \A tier \in {"standard", "batch"}, lang \in Languages,
              kind \in {"input", "output"} :
              analysis[tier][lang][kind] =
                  calculate_cost(SumSeq(Column(df, TokensColumn(lang))),
                                 PRICING[tier][kind])

C22_Witness ==
    /\ program = "token_counter"
    /\ "analyze" \in Range(events)
    /\ analysis.total_english_tokens > 0
    /\ analysis.total_icelandic_tokens > analysis.total_english_tokens
    /\ analysis.batch.icelandic.output # analysis.standard.icelandic.output
    /\ analysis.batch.english.input # analysis.batch.icelandic.input

\* the least and the greatest of a column and what lies between them
Extremes(col, lo, hi) ==
    /\ \A i \in DOMAIN col : lo <= col[i] /\ col[i] <= hi
    /\ \E i \in DOMAIN col : col[i] = lo
    /\ \E i \in DOMAIN col : col[i] = hi

Between(lo, x, hi) == RatLeq(Rat(lo, 1), x) /\ RatLeq(x, Rat(hi, 1))

\* C24: of a record set that is not empty, max_difference and
\* min_difference are the greatest and the least token_difference, the
\* median and the mean lie between them, and for a single record all of
\* them are that record's token_difference; in the summary of
\* analyze_token_differences and in the stats of load_data (which has no
\* median).
C24_Extremes ==
    /\ (program = "token_counter" /\ "analyze" \in Range(events))
          => LET diff == Column(df, "token_difference")
             IN  /\ Extremes(diff, analysis.min_difference, analysis.max_difference)
                 /\ Between(analysis.min_difference, analysis.median_difference,
                            analysis.max_difference)
                 /\ Between(analysis.min_difference, analysis.mean_difference,
                            analysis.max_difference)
                 /\ Len(diff) = 1 =>
                       /\ analysis.max_difference = diff[1]
                       /\ analysis.min_difference = diff[1]
                       /\ analysis.median_difference = Rat(diff[1], 1)
                       /\ analysis.mean_difference = Rat(diff[1], 1)
    /\ (program = "icetoke" /\ load_cache.kind = "data"
           /\ load_cache.stats.sample_count > 0)
          => LET st == load_cache.stats
                 diff == [i \in 1..st.sample_count |->
                             load_cache.df[st.sample_count + i].tokens
                                 - load_cache.df[i].tokens]
             IN  /\ st.max_difference.kind = "num"
                 /\ st.min_difference.kind = "num"
                 /\ st.avg_difference.kind = "num"
                 /\ st.max_difference.value.den = 1
                 /\ st.min_difference.value.den = 1
                 /\ Extremes(diff, st.min_difference.value.num,
                             st.max_difference.value.num)
                 /\ Between(st.min_difference.value.num, st.avg_difference.value,
                            st.max_difference.value.num)
                 /\ Len(diff) = 1 => st.avg_difference.value = Rat(diff[1], 1)

C24_Witness ==
    /\ program = "token_counter"
    /\ "analyze" \in Range(events)
    /\ Len(df.rows) = MaxRows
    /\ analysis.min_difference < 0
    /\ analysis.max_difference > 0
    /\ analysis.median_difference.num # analysis.min_difference * analysis.median_difference.den
    /\ analysis.median_difference.num # analysis.max_difference * analysis.median_difference.den

\* C29: the difference distribution counts every record once: each
\* token_difference that occurs is a key, once, with the number of records
\* that have it, no other value is a key, and the counts add up to the
\* number of records.
C29_Distribution ==
    (program = "token_counter" /\ "analyze" \in Range(events))
        => LET diff == Column(df, "token_difference")
               dist == analysis.difference_distribution
           IN  /\ {dist[k][1] : k \in DOMAIN dist} = Range(diff)
               /\ \A k1, k2 \in DOMAIN dist : dist[k1][1] = dist[k2][1] => k1 = k2
               /\ \A k \in DOMAIN dist :
                     dist[k][2] = Cardinality({i \in DOMAIN diff : diff[i] = dist[k][1]})
               /\ SumSeq([k \in DOMAIN dist |-> dist[k][2]]) = Len(df.rows)

C29_Witness ==
    /\ program = "token_counter"
    /\ "analyze" \in Range(events)
    /\ Len(df.rows) = MaxRows
    /\ \E k \in DOMAIN analysis.difference_distribution :
          analysis.difference_distribution[k][2] = MaxRows
    /\ df.rows[1]["english"] # df.rows[MaxRows]["english"]

\* ------------------------------------------------------------------ C23
\* the page of a run that stopped: nothing of the calculator, of the
\* dashboard or of the dataset is on it
StoppedPage == [NoPage EXCEPT !.stopped = TRUE]

\* C23: when load_data fails, because the file is unreadable or a column is
\* missing, main stops before rendering any tab: the run that finds the
\* failure, and every run while (None, None) is what load_data returns,
\* leaves a page with no statistic, no cost and no tab on it.
C23_StopsOnLoadFailure ==
    /\ [](program = "icetoke" /\ load_cache.kind = "None" => page = StoppedPage)
    /\ [][(program = "icetoke" /\ load_cache.kind = "miss" /\ load_cache' # load_cache
             /\ LoadRaises(data_file))
           => (load_cache'.kind = "None" /\ page' = StoppedPage)]_vars

\* a run stopped on a readable file that lacks the token columns
C23_Witness ==
    /\ program = "icetoke"
    /\ data_file.readable
    /\ LoadRaises(data_file)
    /\ load_cache.kind = "None"
    /\ page.stopped
    /\ page.stats = NoStats
    /\ ~page.dashboard

\* ------------------------------------------------------------------ C27
\* C27: the calculator translates and counts only in a rerun where the
\* Analyze button was pressed and the text is not empty; when the
\* translation or the tokenizing fails in that rerun, the error is shown,
\* no count, cost, difference or percentage is displayed, and the rest of
\* the page, the dashboard tab with the statistics of the dataset, renders.
C27_CalculatorOnDemand ==
    program = "icetoke" =>
        /\ page.calculator.shown # "nothing" =>
                (page.analyze_button /\ page.text # <<>>)
        /\ (page.analyze_button /\ EncodeRaises(page.text)) =>
                page.calculator.shown = "error"
        /\ page.calculator.shown = "error" =>
                /\ page.calculator = ErrorShown
                /\ ~page.stopped
                /\ page.dashboard
                /\ page.intro = Intro
                /\ page.stats = load_cache.stats

\* a rerun whose translation failed for a text that tokenizes, on a page
\* that shows the statistics of two records
C27_Witness ==
    /\ program = "icetoke"
    /\ page.analyze_button
    /\ page.text = <<"a">>
    /\ page.calculator = ErrorShown
    /\ page.dashboard
    /\ page.stats.sample_count = 2

\* ------------------------------------------------------------------ C28
\* C28: over any sequence of reruns of one process load_data reads the
\* dataset file at most once for the one pricing argument main passes, and
\* every later rerun gets the result of that read again, a failed load's
\* (None, None) included, whatever has become of the file since.
C28_ReadOnce ==
    /\ [](reads <= 1)
    /\ [][load_cache.kind # "miss" => (load_cache' = load_cache /\ reads' = reads)]_vars

\* main has run on a file that loads now, and was stopped by the (None,
\* None) of the one read made before the file was written
C28_Witness ==
    /\ program = "icetoke"
    /\ seen_file = data_file
    /\ ~LoadRaises(data_file)
    /\ Len(data_file.rows) > 0
    /\ load_cache.kind = "None"
    /\ reads = 1
    /\ page = StoppedPage

\* ------------------------------------------------------------------ C26
\* a source that was read and has no data rows
NoDataRows == source.readable /\ Len(source.rows) = 0

\* C26: process_csv on a source with zero data rows does not complete
\* normally: it gets as far as the analysis, whose selection of the maximum
\* record raises ValueError; the error reaches the caller, nothing is
\* printed and no output file is written.
C26_NoRowsFails ==
    (program = "token_counter" /\ NoDataRows) =>
        /\ pc # "done"
        /\ ~("analyze" \in Range(events))
        /\ report = NoReport
        /\ NotWritten
        /\ output = previous
        /\ (pc = "failed" /\ "icelandic" \in Range(events)) =>
                raised = "ValueError"
        /\ pc = "failed" => raised # "none"

\* the run on an empty source with both text columns ended in the analysis
C26_Witness ==
    /\ program = "token_counter"
    /\ NoDataRows
    /\ pc = "failed"
    /\ raised = "ValueError"
    /\ Len(events) > 0
    /\ "token_difference" \in Range(df.columns)
    /\ output = previous

\* ------------------------------------------------------------------ C25
\* C25: the input cost a dashboard's load_data gives a row equals
\* calculate_cost(tokens, 2.50) of the batch pipeline for every token
\* count, as the floats Python computes, for icetoke's tokens * price /
\* 1_000_000 and for the archived dashboard's tokens * per-token price.
C25_SameCost ==
    (program = "library" /\ call.fn = "estimated_input_cost") =>
        call.binary64 =
            calculate_cost_binary64(call.tokens, Decimal(PRICING.standard.input, 100))

====
